---- MODULE Spec2Model ----
(***************************************************************************)
(* Model of the cblog package: the progress Console (console.go) as a set  *)
(* of goroutines stepping through its methods over the Console's fields,   *)
(* a wall clock and the output sink.                                       *)
(*                                                                         *)
(* A goroutine's position is pc[t], named after the source line of         *)
(* console.go it is about to execute; frame[t] holds the locals of the     *)
(* call in progress and, after the return, the record of the last call.    *)
(* Strings are kept as their shape (leading/trailing white space, visible  *)
(* length, first and last character), which is all the code inspects.      *)
(***************************************************************************)
EXTENDS Integers, Sequences, FiniteSets, TLC

\* ------------------------------------------------------------------ bounds

\* Largest wall-clock second the model reaches (the clock starts at 1).
MaxClock == 2

\* Calls a goroutine of the sequential specification may begin.
MaxCalls == 4

\* Calls Main may begin in the specification of the rate limit.
MaxRateCalls == 5

\* Calls Main may begin beside the concurrent callers.
MaxSessionCalls == 2

\* Calls Main may begin beside the AutoPrint loop.
MaxAutoCalls == 4

\* Calls the concurrent callers may begin, all callers together.
MaxConcCalls == 2

\* ----------------------------------------------------------------- threads

Main == "main"

Workers == {"w1", "w2"}

Auto == "auto"

Threads == {Main, Auto} \cup Workers

NoThread == "none"

\* ------------------------------------------------------------------- text
\* A string as the code sees it: lead white-space characters, then core
\* characters from the first to the last visible one, then trail white-space
\* characters; nl: the last character is "\n"; cr: the first is "\r".  A
\* string of white space only has core = 0 and all its characters in trail.

Text(lead, core, trail, nl, cr) ==
    [lead |-> lead, core |-> core, trail |-> trail, nl |-> nl, cr |-> cr]

Str(n) == Text(0, n, 0, FALSE, FALSE)

Spaces(n) == Text(0, 0, n, FALSE, FALSE)

NewLineText == Text(0, 0, 1, TRUE, FALSE)

CarriageReturn == Text(0, 0, 1, FALSE, TRUE)

\* len(s)
TLen(s) == s.lead + s.core + s.trail

\* len(strings.TrimSpace(s))
TrimLen(s) == s.core

\* s + u
Concat(s, u) ==
    LET first == IF TLen(s) > 0 THEN s.cr ELSE u.cr
        last  == IF TLen(u) > 0 THEN u.nl ELSE s.nl
    IN  IF s.core = 0 /\ u.core = 0
          THEN Text(0, 0, s.trail + u.trail, last, first)
        ELSE IF s.core = 0
          THEN Text(s.trail + u.lead, u.core, u.trail, last, first)
        ELSE IF u.core = 0
          THEN Text(s.lead, s.core, s.trail + u.trail, last, first)
        ELSE Text(s.lead, s.core + s.trail + u.lead + u.core, u.trail, last, first)

\* s[0 : len(s)-1] for a string that ends in "\n"
DropLast(s) ==
    [s EXCEPT !.trail = @ - 1, !.nl = FALSE,
              !.cr = IF TLen(s) = 1 THEN FALSE ELSE @]

RECURSIVE SumSeq(_)
SumSeq(q) == IF q = <<>> THEN 0 ELSE Head(q) + SumSeq(Tail(q))

\* fmt.Sprintf(s, args...): every two-character verb of s is replaced by the
\* text of its argument; args holds the lengths of the arguments' texts.
Sprintf(s, args) == [s EXCEPT !.core = @ - 2 * Len(args) + SumSeq(args)]

\* Length of the decimal text of an integer.
RECURSIVE DecLen(_)
DecLen(n) ==
    IF n < 0 THEN 1 + DecLen(0 - n)
    ELSE IF n < 10 THEN 1 ELSE 1 + DecLen(n \div 10)

\* Go's integer division truncates toward zero.
GoDiv(a, b) ==
    IF a >= 0 THEN a \div b ELSE 0 - ((0 - a) \div b)

\* Length of time.Duration.String() of a whole number of seconds below a
\* minute ("0s", "1s", ...).
DurationLen(secs) == DecLen(secs) + 1

\* ------------------------------------------------------- program constants

\* Length of a time formatted with cbutil.DateTimeFormat.
DateTimeLen == 19

\* "Running %s | %d | " and " | %d/s Avg %d/s"
RunningHead == Text(0, 17, 1, FALSE, FALSE)

RunningTail == Text(1, 15, 0, FALSE, FALSE)

\* " | "
Separator == Text(1, 1, 1, FALSE, FALSE)

\* "Start: %s"
StartBanner == Str(9)

\* "Finish: %s | 0 units complete"
FinishZero == Str(29)

\* "Finish: %s | %d units complete in %s | avg %s per unit | avg %d/s"
FinishSummary == Str(65)

\* "Finish: "
FinishHead == Text(0, 7, 1, FALSE, FALSE)

\* --------------------------------------------------------------- inputs

\* Prefixes given to Start.
Prefixes == {Str(3)}

\* Templates given to Print: "" and "item %d" with one one-digit argument.
PrintTemplates ==
    { [text |-> Str(0), args |-> <<>>],
      [text |-> Str(7), args |-> <<1>>] }

\* Templates given to Print by the concurrent callers.
CallerTemplates == { [text |-> Str(0), args |-> <<>>] }

\* Templates given to Println: "done".
PrintlnTemplates == { [text |-> Str(4), args |-> <<>>] }

\* The text a registered message provider returns.
ProviderText == Str(6)

\* The extra message of Finish: none, a string, a string with one argument,
\* or a first value that is not a string.
ExtraMessages == {"none", "str", "strargs", "other"}

\* The text of the extra message string.
ExtraText == Str(5)

\* ------------------------------------------------------------------ state

VARIABLES
    replace,        \* Console.replace
    limit,          \* Console.limit
    trackProgress,  \* Console.trackProgress
    prefix,         \* Console.prefix
    start,          \* Console.start as a Unix second; 0 is the zero time
    lastPrint,      \* Console.lastPrint
    lastPrintLen,   \* Console.lastPrintLen
    progress,       \* Console.progress
    lastProgress,   \* Console.lastProgress
    printFunc,      \* Console.printFunc # nil
    firstTick,      \* Console.firstTick
    done,           \* Console.done
    lock,           \* the goroutine holding Console.lock, or NoThread
    clock,          \* time.Now().Unix()
    sink,           \* what Console.writer has received, one entry a write
    pc,             \* each goroutine's position
    frame,          \* each goroutine's locals and the record of its call
    calls,          \* calls begun: seq by Main, conc by the other callers,
                    \* since: Print/Println/Tick since the last Start; clean;
                    \* phase: no session yet, one open, the last one closed;
                    \* trace: the calls of Main from its last Start on
    unixSocketLogger,   \* a UnixSocketLogger, its connections and its Write
    multipleWriter      \* a MultipleWriter and the Write in progress on it

console == <<replace, limit, trackProgress, prefix, start, lastPrint,
             lastPrintLen, progress, lastProgress, printFunc, firstTick, done>>

vars == <<replace, limit, trackProgress, prefix, start, lastPrint,
          lastPrintLen, progress, lastProgress, printFunc, firstTick, done,
          lock, clock, sink, pc, frame, calls, unixSocketLogger, multipleWriter>>

\* The loggers of part_000, which the Console's operations leave alone.
loggers == <<unixSocketLogger, multipleWriter>>

\* The Console's fields as one record, for the snapshot a call record keeps.
Snapshot ==
    [limit |-> limit, trackProgress |-> trackProgress, lastPrint |-> lastPrint,
     progress |-> progress, lastProgress |-> lastProgress,
     lastPrintLen |-> lastPrintLen, printFunc |-> printFunc,
     clock |-> clock, sinkLen |-> Len(sink)]

NoSnapshot ==
    [limit |-> FALSE, trackProgress |-> FALSE, lastPrint |-> 0, progress |-> 0,
     lastProgress |-> 0, lastPrintLen |-> 0, printFunc |-> FALSE, clock |-> 0,
     sinkLen |-> 0]

\* The locals of a goroutine with no call in progress and none made.
NoFrame ==
    [op |-> "none",          \* the method called by the goroutine
     ret |-> "idle",         \* where Print returns to
     msg |-> Str(0),         \* Print: message
     args |-> <<>>,          \* Print: args, the lengths of their texts
     tag |-> "user",         \* which template message came from
     src |-> "none",         \* Finish: where the closing text came from
     now |-> 0,              \* Print: now
     held |-> FALSE,         \* Print: the deferred Unlock is registered
     running |-> FALSE,      \* Print: the template was wrapped at line 162
     invoked |-> FALSE,      \* Print: printFunc was invoked at line 158
     count |-> 0,            \* Print: the count argument of line 165/167
     delta |-> 0,            \* Print: the per-interval argument of line 173
     avgPs |-> 0,            \* Print: avgPs
     wrote |-> 0,            \* writes made to the sink by the call
     sLimit |-> FALSE,       \* Start/Finish: limit
     sTrack |-> FALSE,       \* Start/Finish: trackProgress
     printStats |-> FALSE,   \* Finish: printStats
     extra |-> "none",       \* Finish: extraMessage
     divisor |-> 1,          \* Finish: the value loaded at line 84
     wake |-> 0,             \* AutoPrint: the second time.Sleep returns at
     pre |-> NoSnapshot]     \* the Console when the call began

\* NewUnixSockerLogger(path), part_000 lines 323-325: no socket yet.  socket
\* is 0 for nil, else the number of the connection net.Dial returned; conns
\* is the state of each connection dialed so far; log is what the Write in
\* progress has done; n and err are the results of Write.
NewUnixSockerLogger ==
    [socket |-> 0, conns |-> <<>>, pc |-> "idle", message |-> 0, n |-> 0,
     err |-> "nil", log |-> <<>>, calls |-> 0]

\* NewMultipleWriter(writers...), part_000 lines 30-32: writers is the number
\* of writers in the list; i, n1 and e are the locals of the loop of Write
\* (n1 is the n declared at line 21); n and err are the results of Write;
\* log is the writers called by the Write in progress, with what they
\* returned.  An error is 0 for nil, else the number of the writer it is of.
NewMultipleWriter(writers) ==
    [writers |-> writers, pc |-> "idle", p |-> 0, i |-> 0, n1 |-> 0,
     e |-> 0, n |-> 0, err |-> 0, log |-> <<>>, calls |-> 0]

TypeOK ==
    /\ replace \in BOOLEAN /\ limit \in BOOLEAN /\ trackProgress \in BOOLEAN
    /\ printFunc \in BOOLEAN /\ firstTick \in BOOLEAN /\ done \in BOOLEAN
    /\ start \in 0..MaxClock /\ lastPrint \in 0..MaxClock
    /\ clock \in 1..MaxClock
    /\ lastPrintLen \in Nat
    /\ progress \in Int /\ lastProgress \in Int
    /\ lock \in Threads \cup {NoThread}
    /\ DOMAIN pc = Threads /\ DOMAIN frame = Threads

\* NewConsole(replace, limit, progress), for every choice of the flags.
Constructed ==
    /\ replace \in BOOLEAN
    /\ limit \in BOOLEAN
    /\ trackProgress \in BOOLEAN
    /\ prefix = Str(0)
    /\ start = 0
    /\ lastPrint = 0
    /\ lastPrintLen = 0
    /\ progress = 0
    /\ lastProgress = 0
    /\ firstTick = FALSE
    /\ done = FALSE
    /\ lock = NoThread
    /\ clock = 1
    /\ sink = <<>>
    /\ pc = [t \in Threads |-> "idle"]
    /\ frame = [t \in Threads |-> NoFrame]
    /\ calls = [seq |-> 0, conc |-> 0, since |-> 0, clean |-> TRUE,
                phase |-> "new", trace |-> <<>>]
    /\ unixSocketLogger = NewUnixSockerLogger
    /\ multipleWriter = NewMultipleWriter(0)

InitConsole == Constructed /\ printFunc = FALSE

\* NewConsole, and SetPrintFunc or not, before any goroutine is started.
InitProvided == Constructed /\ printFunc \in BOOLEAN

\* ------------------------------------------------------------ atomic.Int32
\* The counters stay far below 2^31 within the bounds, so the 32-bit wrap of
\* atomic.Int32 never applies and the values are kept as integers.

\* An Add whose update is lost.
AtomicAddLost(v, d) == v

\* An Add applied twice.
AtomicAddTwice(v, d) == v + 2 * d

\* atomic.Int32.Add: one indivisible read-modify-write.
AtomicAdd(v, d) == v + d

\* ------------------------------------------------------------ Console.Print
\* Print(message, args...) runs from "P141" to "Pret"; its caller set
\* frame[t].msg, .args, .tag and .ret and took the snapshot frame[t].pre.

Goto(t, label) == pc' = [pc EXCEPT ![t] = label]

\* The frame of a call that begins: op is the method, and the message, the
\* arguments and the return label are those of the Print it makes (if any).
CallFrame(t, op, tmpl, tag, ret) ==
    [NoFrame EXCEPT !.op = op, !.msg = tmpl.text, !.args = tmpl.args,
                    !.tag = tag, !.ret = ret,
                    !.pre = IF t = Main THEN Snapshot ELSE NoSnapshot]

\* A nested Print made by Start, Finish, Tick or the AutoPrint loop: the
\* caller's own locals stay, the locals of Print start afresh.
NestedFrame(f, tmpl, tag, ret) ==
    [f EXCEPT !.msg = tmpl.text, !.args = tmpl.args, !.tag = tag, !.ret = ret,
              !.now = 0, !.held = FALSE, !.running = FALSE,
              !.count = 0, !.delta = 0, !.avgPs = 0]

\* Lines 141-144: if c.trackProgress, set c.start when it is the zero time.
P141(t) ==
    /\ pc[t] = "P141"
    /\ IF trackProgress
         THEN /\ start' = IF start = 0 THEN clock ELSE start
              /\ Goto(t, "P145")
         ELSE /\ start' = start
              /\ Goto(t, "P147")
    /\ UNCHANGED <<loggers, replace, limit, trackProgress, prefix, lastPrint,
                   lastPrintLen, progress, lastProgress, printFunc, firstTick,
                   done, lock, clock, sink, frame, calls>>

\* Line 145: c.progress.Add(1).
P145(t) ==
    /\ pc[t] = "P145"
    /\ progress' = AtomicAdd(progress, 1)
    /\ Goto(t, "P147")
    /\ UNCHANGED <<loggers, replace, limit, trackProgress, prefix, start, lastPrint,
                   lastPrintLen, lastProgress, printFunc, firstTick, done,
                   lock, clock, sink, frame, calls>>

\* Line 147: now := time.Now().Unix().
P147(t) ==
    /\ pc[t] = "P147"
    /\ frame' = [frame EXCEPT ![t].now = clock]
    /\ Goto(t, "P148")
    /\ UNCHANGED <<loggers, console, lock, clock, sink, calls>>

\* Whether the check of line 149 discards the call.
RateLimited(now, last) == now <= last

\* Lines 148-151: if c.limit and now <= c.lastPrint, return.  The check reads
\* c.lastPrint before the mutex is taken.
P148(t) ==
    /\ pc[t] = "P148"
    /\ IF limit
         THEN IF RateLimited(frame[t].now, lastPrint)
                THEN Goto(t, "Pret")
                ELSE Goto(t, "P152")
         ELSE Goto(t, "P157")
    /\ UNCHANGED <<loggers, console, lock, clock, sink, frame, calls>>

\* Lines 152-153: c.lock.Lock(); defer c.lock.Unlock().
P152(t) ==
    /\ pc[t] = "P152"
    /\ lock = NoThread
    /\ lock' = t
    /\ frame' = [frame EXCEPT ![t].held = TRUE]
    /\ Goto(t, "P154")
    /\ UNCHANGED <<loggers, console, clock, sink, calls>>

\* Line 154: c.lastPrint = now.
P154(t) ==
    /\ pc[t] = "P154"
    /\ lastPrint' = frame[t].now
    /\ Goto(t, "P157")
    /\ UNCHANGED <<loggers, replace, limit, trackProgress, prefix, start, lastPrintLen,
                   progress, lastProgress, printFunc, firstTick, done, lock,
                   clock, sink, frame, calls>>

\* Lines 157-159: an empty message with nil args is taken from printFunc.
P157(t) ==
    /\ pc[t] = "P157"
    /\ IF TLen(frame[t].msg) = 0 /\ frame[t].args = <<>> /\ printFunc
         THEN frame' = [frame EXCEPT ![t].msg = ProviderText,
                                     ![t].invoked = TRUE]
         ELSE frame' = frame
    /\ Goto(t, "P161")
    /\ UNCHANGED <<loggers, console, lock, clock, sink, calls>>

\* Lines 161-167: if c.trackProgress, wrap the template and put the runtime
\* and c.progress.Load() before the arguments.
P161(t) ==
    /\ pc[t] = "P161"
    /\ IF trackProgress
         THEN /\ frame' = [frame EXCEPT
                   ![t].msg = Concat(Concat(RunningHead, @), RunningTail),
                   ![t].running = TRUE,
                   ![t].count = progress,
                   ![t].args = <<DurationLen(IF start = 0 THEN 0
                                             ELSE clock - start),
                                 DecLen(progress)>> \o @]
              /\ Goto(t, "P170")
         ELSE /\ frame' = frame
              /\ Goto(t, "P176")
    /\ UNCHANGED <<loggers, console, lock, clock, sink, calls>>

\* Lines 169-172: avgPs is c.progress.Load() over the seconds since c.start.
\* The zero time lies so far back that the quotient is 0.
P170(t) ==
    /\ pc[t] = "P170"
    /\ frame' = [frame EXCEPT ![t].avgPs =
                    IF start # 0 /\ start < frame[t].now
                      THEN GoDiv(progress, frame[t].now - start)
                      ELSE 0]
    /\ Goto(t, "P173")
    /\ UNCHANGED <<loggers, console, lock, clock, sink, calls>>

\* Line 173, first operand: c.progress.Load().
P173(t) ==
    /\ pc[t] = "P173"
    /\ frame' = [frame EXCEPT ![t].delta = progress]
    /\ Goto(t, "P173b")
    /\ UNCHANGED <<loggers, console, lock, clock, sink, calls>>

\* Line 173, second operand: minus c.lastProgress.Load(); both are appended.
P173b(t) ==
    /\ pc[t] = "P173b"
    /\ LET d == frame[t].delta - lastProgress
       IN  frame' = [frame EXCEPT
                ![t].delta = d,
                ![t].args = @ \o <<DecLen(d), DecLen(frame[t].avgPs)>>]
    /\ Goto(t, "P176")
    /\ UNCHANGED <<loggers, console, lock, clock, sink, calls>>

\* Lines 176-178: the prefix and " | " go before the message.
Prefixed(pfx, msg) ==
    IF TLen(pfx) # 0 THEN Concat(Concat(pfx, Separator), msg) ELSE msg

\* Lines 181-197, replace mode: a leading "\r", the arguments substituted,
\* and a message no longer than lastLen padded with spaces (before its
\* trailing newline when it has one).
Replaced(msg, args, newLine, lastLen) ==
    LET m1 == IF msg.cr THEN msg ELSE Concat(CarriageReturn, msg)
        m2 == IF Len(args) > 0 THEN Sprintf(m1, args) ELSE m1
        m3 == IF newLine THEN DropLast(m2) ELSE m2
        m4 == Concat(m3, Spaces(lastLen - TrimLen(m3) + 1))
    IN  IF TLen(m2) <= lastLen
          THEN IF newLine THEN Concat(m4, NewLineText) ELSE m4
          ELSE m2

\* Lines 198-205, append mode: a trailing "\n", the arguments substituted.
Appended(msg, args, newLine) ==
    LET m1 == IF newLine THEN msg ELSE Concat(msg, NewLineText)
    IN  IF Len(args) > 0 THEN Sprintf(m1, args) ELSE m1

\* Lines 176-205: the bytes Print writes.
Formatted(pfx, msg, args, rep, lastLen) ==
    LET m == Prefixed(pfx, msg)
    IN  IF rep THEN Replaced(m, args, m.nl, lastLen)
               ELSE Appended(m, args, m.nl)

\* Lines 207-211: the length recorded for the next replacement.
RecordedLen(out, newLine) == IF newLine THEN 0 ELSE TrimLen(out)

\* Lines 176-211: format the message and record c.lastPrintLen.
P176(t) ==
    /\ pc[t] = "P176"
    /\ LET newLine == Prefixed(prefix, frame[t].msg).nl
           out == Formatted(prefix, frame[t].msg, frame[t].args, replace,
                            lastPrintLen)
       IN  /\ frame' = [frame EXCEPT ![t].msg = out]
           /\ lastPrintLen' = RecordedLen(out, newLine)
    /\ Goto(t, "P213")
    /\ UNCHANGED <<loggers, replace, limit, trackProgress, prefix, start, lastPrint,
                   progress, lastProgress, printFunc, firstTick, done, lock,
                   clock, sink, calls>>

\* What one write leaves in the sink: the template it came from, whether it
\* carries the "Running" annotation and with which count, where a closing
\* text came from, the second the call read at line 147, and the caller.
SinkEntry(t) ==
    [tag |-> frame[t].tag, running |-> frame[t].running,
     count |-> frame[t].count, src |-> frame[t].src, sec |-> frame[t].now,
     by |-> t]

\* Line 213: fmt.Fprintf(c.writer, message).
P213(t) ==
    /\ pc[t] = "P213"
    /\ sink' = Append(sink, SinkEntry(t))
    /\ frame' = [frame EXCEPT ![t].wrote = @ + 1]
    /\ Goto(t, "P215")
    /\ UNCHANGED <<loggers, console, lock, clock, calls>>

\* Lines 215-217: if c.trackProgress, c.lastProgress.Store(c.progress.Load()).
P215(t) ==
    /\ pc[t] = "P215"
    /\ lastProgress' = IF trackProgress THEN progress ELSE lastProgress
    /\ Goto(t, "Pret")
    /\ UNCHANGED <<loggers, replace, limit, trackProgress, prefix, start, lastPrint,
                   lastPrintLen, progress, printFunc, firstTick, done, lock,
                   clock, sink, frame, calls>>

\* The frame once Print has returned: its locals are gone.  After the
\* return of its call, Main keeps what the call did and the other goroutines
\* keep nothing.
Returned(t, f) ==
    IF t # Main /\ f.ret = "idle"
      THEN NoFrame
      ELSE [f EXCEPT !.held = FALSE, !.ret = "idle", !.msg = Str(0),
                     !.args = <<>>, !.now = 0, !.count = 0, !.delta = 0,
                     !.avgPs = 0]

\* A return of Print that leaves the mutex locked.
UnlockedNever(t, held, l) == l

\* The mutex after a return of Print: the deferred Unlock runs if registered.
Unlocked(t, held, l) == IF held THEN NoThread ELSE l

\* The return of Print (lines 150 and 218), to the caller's next line.
Pret(t) ==
    /\ pc[t] = "Pret"
    /\ lock' = Unlocked(t, frame[t].held, lock)
    /\ frame' = [frame EXCEPT ![t] = Returned(t, @)]
    /\ Goto(t, frame[t].ret)
    /\ UNCHANGED <<loggers, console, clock, sink, calls>>

PrintStep(t) ==
    \/ P141(t) \/ P145(t) \/ P147(t) \/ P148(t) \/ P152(t) \/ P154(t)
    \/ P157(t) \/ P161(t) \/ P170(t) \/ P173(t) \/ P173b(t) \/ P176(t)
    \/ P213(t) \/ P215(t) \/ Pret(t)

\* ------------------------------------------------- the calls of a caller
\* A call begins at pc[t] = "idle" and ends there.  calls counts the calls
\* begun; "since" restarts when Start returns, and "clean" says that since
\* then no Start, Finish or AutoPrint loop has run.

Counted(t, op) ==
    [calls EXCEPT !.seq = IF t = Main THEN @ + 1 ELSE @,
                  !.conc = IF t # Main THEN @ + 1 ELSE @,
                  !.since = IF op \in {"Print", "Println", "Tick"}
                              THEN @ + 1 ELSE @,
                  !.trace = IF t = Main THEN Append(@, op) ELSE @]

\* Line 41-43: SetPrintFunc(print); set is print # nil.
SetPrintFunc(t, set) ==
    /\ pc[t] = "idle"
    /\ printFunc' = set
    /\ frame' = [frame EXCEPT ![t] = CallFrame(t, "SetPrintFunc",
                    [text |-> Str(0), args |-> <<>>], "user", "idle")]
    /\ UNCHANGED <<loggers, replace, limit, trackProgress, prefix, start, lastPrint,
                   lastPrintLen, progress, lastProgress, firstTick, done,
                   lock, clock, sink, pc, calls>>

\* Line 140: a call of Print(message, args...).
ConsolePrint(t, tmpl) ==
    /\ pc[t] = "idle"
    /\ frame' = [frame EXCEPT ![t] = CallFrame(t, "Print", tmpl, "user", "idle")]
    /\ Goto(t, "P141")
    /\ calls' = Counted(t, "Print")
    /\ UNCHANGED <<loggers, console, lock, clock, sink>>

\* Lines 220-226: Println(message, args...) is Print(message + "\n", args...).
ConsolePrintln(t, tmpl) ==
    /\ pc[t] = "idle"
    /\ frame' = [frame EXCEPT ![t] = CallFrame(t, "Println",
                    [text |-> Concat(tmpl.text, NewLineText), args |-> tmpl.args],
                    "user", "idle")]
    /\ Goto(t, "P141")
    /\ calls' = Counted(t, "Println")
    /\ UNCHANGED <<loggers, console, lock, clock, sink>>

\* Lines 130-136: Tick(); the first Tick sets c.firstTick and, when the
\* progress is tracked, c.start.
ConsoleTick(t) ==
    /\ pc[t] = "idle"
    /\ firstTick' = TRUE
    /\ start' = IF ~firstTick /\ trackProgress THEN clock ELSE start
    /\ frame' = [frame EXCEPT ![t] = CallFrame(t, "Tick",
                    [text |-> Str(0), args |-> <<>>], "user", "idle")]
    /\ Goto(t, "T137")
    /\ calls' = Counted(t, "Tick")
    /\ UNCHANGED <<loggers, replace, limit, trackProgress, prefix, lastPrint,
                   lastPrintLen, progress, lastProgress, printFunc, done,
                   lock, clock, sink>>

\* Line 137: c.Print("").
T137(t) ==
    /\ pc[t] = "T137"
    /\ Goto(t, "P141")
    /\ UNCHANGED <<loggers, console, lock, clock, sink, frame, calls>>

\* Line 228: a call of NewLine().
ConsoleNewLine(t) ==
    /\ pc[t] = "idle"
    /\ frame' = [frame EXCEPT ![t] = CallFrame(t, "NewLine",
                    [text |-> NewLineText, args |-> <<>>], "newline", "idle")]
    /\ Goto(t, "N229")
    /\ calls' = Counted(t, "NewLine")
    /\ UNCHANGED <<loggers, console, lock, clock, sink>>

\* Line 229: c.lock.Lock().
N229(t) ==
    /\ pc[t] = "N229"
    /\ lock = NoThread
    /\ lock' = t
    /\ frame' = [frame EXCEPT ![t].held = TRUE]
    /\ Goto(t, "N230")
    /\ UNCHANGED <<loggers, console, clock, sink, calls>>

\* Line 230: fmt.Fprintf(c.writer, "\n").
N230(t) ==
    /\ pc[t] = "N230"
    /\ sink' = Append(sink, SinkEntry(t))
    /\ frame' = [frame EXCEPT ![t].wrote = @ + 1]
    /\ Goto(t, "N231")
    /\ UNCHANGED <<loggers, console, lock, clock, calls>>

\* Line 231: c.lock.Unlock().
N231(t) ==
    /\ pc[t] = "N231"
    /\ lock' = NoThread
    /\ frame' = [frame EXCEPT ![t] = Returned(t, @)]
    /\ Goto(t, "idle")
    /\ UNCHANGED <<loggers, console, clock, sink, calls>>

NewLineStep(t) == N229(t) \/ N230(t) \/ N231(t)

\* The wall clock passes to the next second.
ClockTick ==
    /\ clock < MaxClock
    /\ clock' = clock + 1
    /\ UNCHANGED <<loggers, console, lock, sink, pc, frame, calls>>

\* ------------------------------------------------------------ Console.Start

\* No call of Print, Println or Tick is in progress and no AutoPrint loop runs.
Quiet(t) == \A u \in Threads \ {t} : pc[u] = "idle"

\* Lines 49-52: Start(prefix) clears c.done and sets c.start and c.prefix.
ConsoleStart(t, pfx) ==
    /\ pc[t] = "idle"
    /\ done' = FALSE
    /\ start' = clock
    /\ prefix' = pfx
    /\ frame' = [frame EXCEPT ![t] = CallFrame(t, "Start",
                    [text |-> Str(0), args |-> <<>>], "start", "idle")]
    /\ Goto(t, "S54")
    /\ calls' = [Counted(t, "Start") EXCEPT !.clean = FALSE, !.phase = "open",
                                            !.trace = <<"Start">>]
    /\ UNCHANGED <<loggers, replace, limit, trackProgress, lastPrint, lastPrintLen,
                   progress, lastProgress, printFunc, firstTick, lock, clock,
                   sink>>

\* Lines 54-55: limit := c.limit; c.limit = false.
S54(t) ==
    /\ pc[t] = "S54"
    /\ frame' = [frame EXCEPT ![t].sLimit = limit]
    /\ limit' = FALSE
    /\ Goto(t, "S56")
    /\ UNCHANGED <<loggers, replace, trackProgress, prefix, start, lastPrint,
                   lastPrintLen, progress, lastProgress, printFunc, firstTick,
                   done, lock, clock, sink, calls>>

\* Lines 56-57: trackProgress := c.trackProgress; c.trackProgress = false.
S56(t) ==
    /\ pc[t] = "S56"
    /\ frame' = [frame EXCEPT ![t].sTrack = trackProgress]
    /\ trackProgress' = FALSE
    /\ Goto(t, "S59")
    /\ UNCHANGED <<loggers, replace, limit, prefix, start, lastPrint, lastPrintLen,
                   progress, lastProgress, printFunc, firstTick, done, lock,
                   clock, sink, calls>>

\* Line 59: c.Println("Start: %s", c.start.Format(cbutil.DateTimeFormat)).
S59(t) ==
    /\ pc[t] = "S59"
    /\ frame' = [frame EXCEPT ![t] = NestedFrame(@,
                    [text |-> Concat(StartBanner, NewLineText),
                     args |-> <<DateTimeLen>>], "start", "S61")]
    /\ Goto(t, "P141")
    /\ UNCHANGED <<loggers, console, lock, clock, sink, calls>>

\* Line 61: c.limit = limit.
S61(t) ==
    /\ pc[t] = "S61"
    /\ limit' = frame[t].sLimit
    /\ Goto(t, "S62")
    /\ UNCHANGED <<loggers, replace, trackProgress, prefix, start, lastPrint,
                   lastPrintLen, progress, lastProgress, printFunc, firstTick,
                   done, lock, clock, sink, frame, calls>>

\* Line 62: c.trackProgress = trackProgress.
S62(t) ==
    /\ pc[t] = "S62"
    /\ trackProgress' = frame[t].sTrack
    /\ Goto(t, "S63")
    /\ UNCHANGED <<loggers, replace, limit, prefix, start, lastPrint, lastPrintLen,
                   progress, lastProgress, printFunc, firstTick, done, lock,
                   clock, sink, frame, calls>>

\* Line 63: c.progress.Store(0), and Start returns.
S63(t) ==
    /\ pc[t] = "S63"
    /\ progress' = 0
    /\ frame' = [frame EXCEPT ![t] = Returned(t, @)]
    /\ Goto(t, "idle")
    /\ calls' = [calls EXCEPT !.since = 0, !.clean = Quiet(t)]
    /\ UNCHANGED <<loggers, replace, limit, trackProgress, prefix, start, lastPrint,
                   lastPrintLen, lastProgress, printFunc, firstTick, done,
                   lock, clock, sink>>

StartStep(t) == S54(t) \/ S56(t) \/ S59(t) \/ S61(t) \/ S62(t) \/ S63(t)

\* ----------------------------------------------------------- Console.Finish

\* Line 66-67: Finish(printStats, extraMessage...) sets c.done.
ConsoleFinish(t, printStats, extra) ==
    /\ pc[t] = "idle"
    /\ done' = TRUE
    /\ frame' = [frame EXCEPT ![t] = [CallFrame(t, "Finish",
                    [text |-> Str(0), args |-> <<>>], "finish", "idle")
                    EXCEPT !.printStats = printStats, !.extra = extra]]
    /\ Goto(t, "F68")
    /\ calls' = [Counted(t, "Finish") EXCEPT !.clean = FALSE,
                                             !.phase = "closed"]
    /\ UNCHANGED <<loggers, replace, limit, trackProgress, prefix, start, lastPrint,
                   lastPrintLen, progress, lastProgress, printFunc, firstTick,
                   lock, clock, sink>>

\* A Finish that prints the statistics whether asked to or not.
AfterStatsCheckAlways(printStats, tracked) ==
    IF ~tracked THEN "idle" ELSE "F72"

\* Where Finish goes from line 68: it returns at line 70 when the statistics
\* are asked for and the progress is not tracked.
AfterStatsCheck(printStats, tracked) ==
    IF printStats THEN (IF ~tracked THEN "idle" ELSE "F72") ELSE "F104"

\* Lines 68-71.
F68(t) ==
    /\ pc[t] = "F68"
    /\ LET next == AfterStatsCheck(frame[t].printStats, trackProgress)
       IN  /\ Goto(t, next)
           /\ frame' = IF next = "idle"
                         THEN [frame EXCEPT ![t] = Returned(t, @)]
                         ELSE frame
    /\ UNCHANGED <<loggers, console, lock, clock, sink, calls>>

\* A save of c.limit that leaves the flag set.
SaveLimitKept(t, here, next) ==
    /\ pc[t] = here
    /\ frame' = [frame EXCEPT ![t].sLimit = limit]
    /\ Goto(t, next)
    /\ UNCHANGED <<loggers, console, lock, clock, sink, calls>>

\* Lines 72-73 and 105-106: limit := c.limit; c.limit = false.
SaveLimit(t, here, next) ==
    /\ pc[t] = here
    /\ frame' = [frame EXCEPT ![t].sLimit = limit]
    /\ limit' = FALSE
    /\ Goto(t, next)
    /\ UNCHANGED <<loggers, replace, trackProgress, prefix, start, lastPrint,
                   lastPrintLen, progress, lastProgress, printFunc, firstTick,
                   done, lock, clock, sink, calls>>

\* Lines 74-75 and 107-108: trackProgress := c.trackProgress;
\* c.trackProgress = false.
SaveTrack(t, here, next) ==
    /\ pc[t] = here
    /\ frame' = [frame EXCEPT ![t].sTrack = trackProgress]
    /\ trackProgress' = FALSE
    /\ Goto(t, next)
    /\ UNCHANGED <<loggers, replace, limit, prefix, start, lastPrint, lastPrintLen,
                   progress, lastProgress, printFunc, firstTick, done, lock,
                   clock, sink, calls>>

\* Lines 80, 100 and 122: c.limit = limit.
RestoreLimit(t, here, next) ==
    /\ pc[t] = here
    /\ limit' = frame[t].sLimit
    /\ Goto(t, next)
    /\ UNCHANGED <<loggers, replace, trackProgress, prefix, start, lastPrint,
                   lastPrintLen, progress, lastProgress, printFunc, firstTick,
                   done, lock, clock, sink, frame, calls>>

\* Lines 81, 101 and 123: c.trackProgress = trackProgress.
RestoreTrack(t, here, next) ==
    /\ pc[t] = here
    /\ trackProgress' = frame[t].sTrack
    /\ Goto(t, next)
    /\ UNCHANGED <<loggers, replace, limit, prefix, start, lastPrint, lastPrintLen,
                   progress, lastProgress, printFunc, firstTick, done, lock,
                   clock, sink, frame, calls>>

F72(t) == SaveLimit(t, "F72", "F74")

F74(t) == SaveTrack(t, "F74", "F78")

\* Lines 77-78: now := time.Now(); if c.progress.Load() == 0.
F78(t) ==
    /\ pc[t] = "F78"
    /\ frame' = [frame EXCEPT ![t].now = clock]
    /\ Goto(t, IF progress = 0 THEN "F79" ELSE "F84")
    /\ UNCHANGED <<loggers, console, lock, clock, sink, calls>>

\* Line 79: c.Println("Finish: %s | 0 units complete", now.Format(...)).
F79(t) ==
    /\ pc[t] = "F79"
    /\ frame' = [frame EXCEPT ![t] = NestedFrame(@,
                    [text |-> Concat(FinishZero, NewLineText),
                     args |-> <<DateTimeLen>>], "zero", "F80")]
    /\ Goto(t, "P141")
    /\ UNCHANGED <<loggers, console, lock, clock, sink, calls>>

F80(t) == RestoreLimit(t, "F80", "F81")

F81(t) == RestoreTrack(t, "F81", "F100")

\* Lines 83-84: avgDuration := totalDuration / time.Duration(c.progress.Load());
\* an integer division by zero panics.
F84(t) ==
    /\ pc[t] = "F84"
    /\ frame' = [frame EXCEPT ![t].divisor = progress]
    /\ Goto(t, IF progress = 0 THEN "panic" ELSE "F90")
    /\ UNCHANGED <<loggers, console, lock, clock, sink, calls>>

\* The lengths of the texts of the five arguments of lines 92-96: the time,
\* c.progress.Load(), totalDuration, avgDuration and time.Second/avgDuration,
\* with the durations taken in whole seconds.
SummaryArgs(units, total, divisor) ==
    LET avg == GoDiv(total, divisor)
    IN  <<DateTimeLen, DecLen(units), DurationLen(total),
          DurationLen(IF avg = 0 THEN 1 ELSE avg),
          DecLen(GoDiv(1, IF avg = 0 THEN 1 ELSE avg))>>

\* Lines 86-97: c.Println("Finish: %s | %d units complete in %s | ...", ...)
\* with c.progress.Load() read again at line 93.
F90(t) ==
    /\ pc[t] = "F90"
    /\ frame' = [frame EXCEPT ![t] = [NestedFrame(@,
                    [text |-> Concat(FinishSummary, NewLineText),
                     args |-> SummaryArgs(progress,
                                 IF start = 0 THEN 0 ELSE frame[t].now - start,
                                 frame[t].divisor)],
                    "summary", "F100") EXCEPT !.count = progress]]
    /\ Goto(t, "P141")
    /\ UNCHANGED <<loggers, console, lock, clock, sink, calls>>

F100(t) == RestoreLimit(t, "F100", "F101")

F101(t) == RestoreTrack(t, "F101", "F104")

\* Whether Finish prints a closing line (line 104).
HasClosing(provider, extra) == provider \/ extra # "none"

\* Line 104: if c.printFunc != nil || len(extraMessage) > 0.
F104(t) ==
    /\ pc[t] = "F104"
    /\ Goto(t, IF HasClosing(printFunc, frame[t].extra) THEN "F105" ELSE "F126")
    /\ UNCHANGED <<loggers, console, lock, clock, sink, frame, calls>>

F105(t) == SaveLimit(t, "F105", "F107")

F107(t) == SaveTrack(t, "F107", "F109")

\* Where the closing text comes from (lines 109-119): the provider first,
\* else the extra message when its first value is a string, else nowhere.
ClosingSource(provider, extra) ==
    IF provider THEN "provider"
    ELSE IF extra \in {"str", "strargs"} THEN "extra"
    ELSE "none"

\* The template and arguments of the closing Println (lines 111, 115, 117).
ClosingTemplate(src, extra) ==
    [text |-> Concat(Concat(FinishHead,
                            IF src = "provider" THEN ProviderText ELSE ExtraText),
                     NewLineText),
     args |-> IF src = "extra" /\ extra = "strargs" THEN <<1>> ELSE <<>>]

\* Lines 109-120: the closing line, or nothing for a first value that is
\* not a string.
F109(t) ==
    /\ pc[t] = "F109"
    /\ LET src == ClosingSource(printFunc, frame[t].extra)
       IN  IF src = "none"
             THEN /\ frame' = frame
                  /\ Goto(t, "F122")
             ELSE /\ frame' = [frame EXCEPT ![t] =
                        [NestedFrame(@, ClosingTemplate(src, frame[t].extra),
                                     "close", "F122")
                           EXCEPT !.src = src,
                                  !.invoked = (src = "provider")]]
                  /\ Goto(t, "P141")
    /\ UNCHANGED <<loggers, console, lock, clock, sink, calls>>

F122(t) == RestoreLimit(t, "F122", "F123")

F123(t) == RestoreTrack(t, "F123", "F126")

\* Line 126: c.lastPrint = 0.
F126(t) ==
    /\ pc[t] = "F126"
    /\ lastPrint' = 0
    /\ Goto(t, "F127")
    /\ UNCHANGED <<loggers, replace, limit, trackProgress, prefix, start, lastPrintLen,
                   progress, lastProgress, printFunc, firstTick, done, lock,
                   clock, sink, frame, calls>>

\* Line 127: c.progress.Store(0), and Finish returns.
F127(t) ==
    /\ pc[t] = "F127"
    /\ progress' = 0
    /\ frame' = [frame EXCEPT ![t] = Returned(t, @)]
    /\ Goto(t, "idle")
    /\ UNCHANGED <<loggers, replace, limit, trackProgress, prefix, start, lastPrint,
                   lastPrintLen, lastProgress, printFunc, firstTick, done,
                   lock, clock, sink, calls>>

FinishStep(t) ==
    \/ F68(t) \/ F72(t) \/ F74(t) \/ F78(t) \/ F79(t) \/ F80(t) \/ F81(t)
    \/ F84(t) \/ F90(t) \/ F100(t) \/ F101(t) \/ F104(t) \/ F105(t)
    \/ F107(t) \/ F109(t) \/ F122(t) \/ F123(t) \/ F126(t) \/ F127(t)

\* -------------------------------------------------------- Console.AutoPrint
\* One background goroutine, Auto, is modelled.

\* Lines 234-235 and 246: AutoPrint() starts the goroutine and returns.
ConsoleAutoPrint(t) ==
    /\ pc[t] = "idle"
    /\ pc[Auto] = "idle"
    /\ frame' = [frame EXCEPT
           ![t] = CallFrame(t, "AutoPrint", [text |-> Str(0), args |-> <<>>],
                            "user", "idle"),
           ![Auto] = CallFrame(Auto, "loop", [text |-> Str(0), args |-> <<>>],
                               "auto", "idle")]
    /\ pc' = [pc EXCEPT ![Auto] = "L237"]
    /\ calls' = [Counted(t, "AutoPrint") EXCEPT !.clean = FALSE]
    /\ UNCHANGED <<loggers, console, lock, clock, sink>>

\* Lines 237-239: the loop returns when c.done is set; else it goes to sleep.
L237(t) ==
    /\ pc[t] = "L237"
    /\ IF done
         THEN /\ frame' = [frame EXCEPT ![t].op = "exited"]
              /\ Goto(t, "idle")
         ELSE /\ frame' = [frame EXCEPT ![t].wake = clock + 1]
              /\ Goto(t, "L240")
    /\ UNCHANGED <<loggers, console, lock, clock, sink, calls>>

\* Line 240: time.Sleep(time.Second) returns once a second has passed.
L240(t) ==
    /\ pc[t] = "L240"
    /\ clock >= frame[t].wake
    /\ Goto(t, "L241")
    /\ UNCHANGED <<loggers, console, lock, clock, sink, frame, calls>>

\* Line 241: if c.trackProgress.
L241(t) ==
    /\ pc[t] = "L241"
    /\ Goto(t, IF trackProgress THEN "L242" ELSE "L244")
    /\ UNCHANGED <<loggers, console, lock, clock, sink, frame, calls>>

\* Line 242: c.progress.Add(-1).
L242(t) ==
    /\ pc[t] = "L242"
    /\ progress' = AtomicAdd(progress, 0 - 1)
    /\ Goto(t, "L244")
    /\ UNCHANGED <<loggers, replace, limit, trackProgress, prefix, start, lastPrint,
                   lastPrintLen, lastProgress, printFunc, firstTick, done,
                   lock, clock, sink, frame, calls>>

\* Line 244: c.Print(""), then back to line 237.
L244(t) ==
    /\ pc[t] = "L244"
    /\ frame' = [frame EXCEPT ![t] = NestedFrame(@,
                    [text |-> Str(0), args |-> <<>>], "auto", "L237")]
    /\ Goto(t, "P141")
    /\ UNCHANGED <<loggers, console, lock, clock, sink, calls>>

LoopStep(t) == L237(t) \/ L240(t) \/ L241(t) \/ L242(t) \/ L244(t)

\* ---------------------------------------------------------- specifications

\* One goroutine, Main, makes every call, one after the other, in the life
\* cycle of a Console: a provider may be registered at any time; Start opens
\* a session, Print, Println, Tick and NewLine follow, Finish closes it, and
\* the Console may then be started again.
Init == InitConsole

Register ==
    /\ ~printFunc
    /\ SetPrintFunc(Main, TRUE)

Open ==
    /\ calls.seq < MaxCalls
    /\ calls.phase # "open"
    /\ \E pfx \in Prefixes : ConsoleStart(Main, pfx)

Report ==
    /\ calls.seq < MaxCalls
    /\ calls.phase = "open"
    /\ \/ \E tmpl \in PrintTemplates : ConsolePrint(Main, tmpl)
       \/ \E tmpl \in PrintlnTemplates : ConsolePrintln(Main, tmpl)
       \/ ConsoleTick(Main)
       \/ ConsoleNewLine(Main)

Close ==
    /\ calls.seq < MaxCalls
    /\ calls.phase = "open"
    /\ \E ps \in BOOLEAN, extra \in ExtraMessages :
           ConsoleFinish(Main, ps, extra)

Next ==
    \/ Register
    \/ Open
    \/ Report
    \/ Close
    \/ PrintStep(Main)
    \/ T137(Main)
    \/ NewLineStep(Main)
    \/ StartStep(Main)
    \/ FinishStep(Main)
    \/ ClockTick

Spec == Init /\ [][Next]_vars

\* ------------------------------------------------- what the claims speak of

\* Main has returned from a call of op and begun no other.
MainReturned(op) == pc[Main] = "idle" /\ frame[Main].op = op

\* The index in the sink of the last start banner (0 if there is none), and
\* the writes of the session it opened.
LastStart ==
    LET idx == {i \in 1..Len(sink) : sink[i].tag = "start"}
    IN  IF idx = {} THEN 0 ELSE CHOOSE i \in idx : \A j \in idx : j <= i

SessionSink == SubSeq(sink, IF LastStart = 0 THEN 1 ELSE LastStart, Len(sink))

\* The session of Main was Start, then n calls of Print, then Finish.
StartPrintsFinish(n) ==
    calls.trace = <<"Start">> \o [i \in 1..n |-> "Print"] \o <<"Finish">>

\* One start banner, n "Running" lines counting 1..n, one summary of n units.
BannerRunningSummary(n) ==
    /\ Len(SessionSink) = n + 2
    /\ SessionSink[1].tag = "start" /\ ~SessionSink[1].running
    /\ \A i \in 1..n :
          /\ SessionSink[i + 1].tag = "user"
          /\ SessionSink[i + 1].running
          /\ SessionSink[i + 1].count = i
    /\ SessionSink[n + 2].tag = (IF n = 0 THEN "zero" ELSE "summary")
    /\ ~SessionSink[n + 2].running
    /\ SessionSink[n + 2].count = n

\* Finish(true), no extra message, has returned on a Console with
\* trackProgress, without limit and replace, after Start and n Print calls.
PlainSessionDone(n) ==
    /\ MainReturned("Finish")
    /\ frame[Main].printStats /\ frame[Main].extra = "none"
    /\ trackProgress /\ ~limit /\ ~replace
    /\ StartPrintsFinish(n)

\* C4 as stated: with trackProgress, without limit and replace, Start, then
\* N Print calls, then Finish(true) write exactly the start banner, N
\* "Running" lines counting 1..N and one summary of N units, in this order.
C4_SessionLinesAsStated ==
    \A n \in 0..MaxCalls : PlainSessionDone(n) => BannerRunningSummary(n)

\* C4 as amended: the same when no message provider is registered.
C4_SessionLines ==
    \A n \in 0..MaxCalls :
        PlainSessionDone(n) /\ ~printFunc => BannerRunningSummary(n)

C4_Witness == PlainSessionDone(2) /\ ~printFunc /\ Len(SessionSink) = 4

\* C5: after Finish returns, lastPrint and the completion counter are 0,
\* whatever printStats, the flags, the provider and the extra message are.
C5_FinishResets == MainReturned("Finish") => lastPrint = 0 /\ progress = 0

\* The closing lines the last call of Main wrote.
ClosingLines ==
    {i \in (frame[Main].pre.sinkLen + 1)..Len(sink) : sink[i].tag = "close"}

\* C6: a Finish called with a provider registered or an extra message string
\* writes exactly one closing line, from the provider if there is one, else
\* from the extra message.
C6_FinishClosingLine ==
    MainReturned("Finish")
    /\ (frame[Main].pre.printFunc \/ frame[Main].extra \in {"str", "strargs"})
    => /\ Cardinality(ClosingLines) = 1
       /\ \A i \in ClosingLines :
             sink[i].src = (IF frame[Main].pre.printFunc THEN "provider"
                                                          ELSE "extra")

\* The Println calls of Start and Finish.
ControlTags == {"start", "zero", "summary", "close"}

\* The Println calls Finish has made when the one tagged tag returns.
ControlCalls(f, tag) ==
    IF tag = "close" /\ f.printStats /\ f.pre.trackProgress THEN 2 ELSE 1

\* C7: Start and Finish return with limit and trackProgress as they found
\* them, and each of their banner, summary and closing lines is written (also
\* with limit set and a Print accepted in the same second), without the
\* "Running" annotation, without a change of the counter and without a change
\* of lastPrint.
C7_ControlLines ==
    /\ MainReturned("Start") \/ MainReturned("Finish")
         => /\ limit = frame[Main].pre.limit
            /\ trackProgress = frame[Main].pre.trackProgress
    /\ pc[Main] = "Pret" /\ frame[Main].tag \in ControlTags
         => /\ frame[Main].wrote = ControlCalls(frame[Main], frame[Main].tag)
            /\ sink[Len(sink)].tag = frame[Main].tag
            /\ ~sink[Len(sink)].running
            /\ progress = frame[Main].pre.progress
            /\ lastPrint = frame[Main].pre.lastPrint

C7_Witness ==
    /\ pc[Main] = "Pret" /\ frame[Main].tag = "summary"
    /\ frame[Main].pre.limit
    /\ frame[Main].pre.lastPrint = frame[Main].now
    /\ frame[Main].wrote = 1

\* C8: with no provider registered, Start followed at once by Finish(false)
\* with no extra message writes the start banner and nothing else.
C8_StartFinish ==
    MainReturned("Finish") /\ calls.trace = <<"Start", "Finish">>
    /\ ~frame[Main].printStats /\ frame[Main].extra = "none" /\ ~printFunc
    => /\ Len(SessionSink) = 1
       /\ SessionSink[1].tag = "start"
       /\ frame[Main].wrote = 0

C8_Witness ==
    /\ MainReturned("Finish") /\ calls.trace = <<"Start", "Finish">>
    /\ ~frame[Main].printStats /\ frame[Main].extra = "none" /\ ~printFunc
    /\ limit /\ trackProgress /\ replace
    /\ Len(SessionSink) = 1

\* ------------------------------------------------------------ rate limit
\* SpecRate: a Console with limit set; Main opens sessions, prints in them
\* and closes them, while the clock passes.

InitRate == InitConsole /\ limit

RateOpen ==
    /\ calls.seq < MaxRateCalls
    /\ calls.phase # "open"
    /\ \E pfx \in Prefixes : ConsoleStart(Main, pfx)

RateReport ==
    /\ calls.seq < MaxRateCalls
    /\ calls.phase = "open"
    /\ \E tmpl \in PrintTemplates : ConsolePrint(Main, tmpl)

RateClose ==
    /\ calls.seq < MaxRateCalls
    /\ calls.phase = "open"
    /\ \E ps \in BOOLEAN, extra \in {"none", "str"} :
           ConsoleFinish(Main, ps, extra)

NextRate ==
    \/ RateOpen
    \/ RateReport
    \/ RateClose
    \/ PrintStep(Main)
    \/ StartStep(Main)
    \/ FinishStep(Main)
    \/ ClockTick

SpecRate == InitRate /\ [][NextRate]_vars

\* The Print calls of the session accepted in second sec, the write of the
\* call in progress left out.
AcceptedBefore(sec) ==
    {i \in (LastStart + 1)..(Len(sink) - frame[Main].wrote) :
        sink[i].tag = "user" /\ sink[i].sec = sec}

\* C3: with limit set and one caller, a Print is written exactly when no
\* earlier Print of its session was written in the second it reads: of the
\* Prints of one second the first is written and the others are not, and the
\* first Print of a later second is written.
C3_FirstOfSecond ==
    pc[Main] = "Pret" /\ frame[Main].op = "Print" /\ frame[Main].pre.limit
    => (frame[Main].wrote = 1 <=> AcceptedBefore(frame[Main].now) = {})

\* ------------------------------------------------------ concurrent callers
\* SpecCallers: the goroutines of Workers call Print, Println, Tick and
\* NewLine on one Console, in any interleaving of their steps.  The Go
\* scheduler runs every runnable goroutine again, which is the weak fairness
\* of each caller's steps.

CallerStep(t) == PrintStep(t) \/ T137(t) \/ NewLineStep(t)

CallerCall(t) ==
    /\ calls.conc < MaxConcCalls
    /\ \/ \E tmpl \in CallerTemplates : ConsolePrint(t, tmpl)
       \/ \E tmpl \in PrintlnTemplates : ConsolePrintln(t, tmpl)
       \/ ConsoleTick(t)
       \/ ConsoleNewLine(t)

NextCallers ==
    \/ \E t \in Workers : CallerCall(t)
    \/ \E t \in Workers : PrintStep(t)
    \/ \E t \in Workers : T137(t)
    \/ \E t \in Workers : NewLineStep(t)
    \/ ClockTick

SpecCallers ==
    /\ InitProvided
    /\ [][NextCallers]_vars
    /\ \A t \in Workers : WF_vars(CallerStep(t))

\* The writes of Print, Println and Tick.
PrintWrites == {i \in 1..Len(sink) : sink[i].tag = "user"}

\* C2: with limit set, no two Print calls that read the same second are both
\* accepted: at most one line is written per wall-clock second.
C2_OneLinePerSecond ==
    limit => \A i, j \in PrintWrites : sink[i].sec = sink[j].sec => i = j

\* C10: concurrent callers of Print, Println, Tick and NewLine never deadlock:
\* every call returns, and the mutex is free whenever no call is in progress.
C10_NoDeadlock ==
    /\ \A t \in Workers : [](pc[t] # "idle" => <>(pc[t] = "idle"))
    /\ []((\A t \in Workers : pc[t] = "idle") => lock = NoThread)

\* A caller waits for the mutex another caller holds.
C10_Witness ==
    \E t, u \in Workers :
        /\ pc[t] \in {"P152", "N229"}
        /\ lock = u
        /\ pc[u] \in {"P213", "N230"}

\* ------------------------------------------------- a session with callers
\* SpecSession: Main starts the Console and finishes; the callers print
\* concurrently while the session is open.  As the Console's fields other
\* than the counters and lastPrint are unguarded, Main calls Start and Finish
\* while no caller is in a call.

SessionOpen ==
    /\ calls.seq < MaxSessionCalls
    /\ calls.phase # "open"
    /\ \A t \in Workers : pc[t] = "idle"
    /\ \E pfx \in Prefixes : ConsoleStart(Main, pfx)

SessionClose ==
    /\ calls.seq < MaxSessionCalls
    /\ calls.phase = "open"
    /\ \A t \in Workers : pc[t] = "idle"
    /\ \E ps \in BOOLEAN, extra \in {"none", "str"} :
           ConsoleFinish(Main, ps, extra)

SessionCall(t) ==
    /\ calls.conc < MaxConcCalls
    /\ calls.phase = "open"
    /\ pc[Main] = "idle"
    /\ \/ \E tmpl \in CallerTemplates : ConsolePrint(t, tmpl)
       \/ \E tmpl \in PrintlnTemplates : ConsolePrintln(t, tmpl)
       \/ ConsoleTick(t)

NextSession ==
    \/ SessionOpen
    \/ SessionClose
    \/ \E t \in Workers : SessionCall(t)
    \/ \E t \in Workers : T137(t)
    \/ \E t \in Workers \cup {Main} : PrintStep(t)
    \/ StartStep(Main)
    \/ FinishStep(Main)
    \/ ClockTick

SpecSession == InitProvided /\ [][NextSession]_vars

\* Every caller has returned from its calls.
CallersIdle == \A t \in Workers : pc[t] = "idle"

\* C1: with trackProgress, once the N calls of Print, Println and Tick made
\* by the callers since the last Start (no Start, Finish or AutoPrint loop
\* since) have returned, the completion counter is N.
C1_CounterCountsCalls ==
    trackProgress /\ calls.clean /\ CallersIdle /\ pc[Main] = "idle"
    => progress = calls.since

\* Two calls made after Start have returned, one of them discarded by the
\* rate limit.
C1_Witness ==
    /\ trackProgress /\ limit /\ calls.clean /\ CallersIdle
    /\ calls.phase = "open" /\ pc[Main] = "idle"
    /\ calls.since = 2
    /\ Cardinality(PrintWrites) = 1
    /\ progress = 2

\* ------------------------------------------------ a session with AutoPrint
\* SpecAuto: one goroutine, Owner, starts the Console, starts the AutoPrint
\* loop, prints and finishes, while the loop runs beside it.

Owner == "w1"

\* A panic of a goroutine ends the program.
Alive == \A t \in Threads : pc[t] # "panic"

AutoOpen ==
    /\ calls.conc < MaxAutoCalls
    /\ calls.phase # "open"
    /\ \E pfx \in Prefixes : ConsoleStart(Owner, pfx)

AutoLoop ==
    /\ calls.conc < MaxAutoCalls
    /\ calls.phase = "open"
    /\ ConsoleAutoPrint(Owner)

AutoReport ==
    /\ calls.conc < MaxAutoCalls
    /\ calls.phase = "open"
    /\ \/ \E tmpl \in CallerTemplates : ConsolePrint(Owner, tmpl)
       \/ ConsoleTick(Owner)

AutoClose ==
    /\ calls.conc < MaxAutoCalls
    /\ calls.phase = "open"
    /\ \E ps \in BOOLEAN, extra \in {"none", "str"} :
           ConsoleFinish(Owner, ps, extra)

NextAuto ==
    \/ AutoOpen
    \/ AutoLoop
    \/ AutoReport
    \/ AutoClose
    \/ T137(Owner)
    \/ \E t \in {Owner, Auto} : Alive /\ PrintStep(t)
    \/ Alive /\ StartStep(Owner)
    \/ Alive /\ FinishStep(Owner)
    \/ Alive /\ LoopStep(Auto)
    \/ ClockTick

\* NewConsole(false, limit, progress), no provider registered.
InitAuto == InitConsole /\ ~replace

SpecAuto == InitAuto /\ [][NextAuto]_vars

\* Start has returned and Finish has not been called.
Between == calls.phase = "open" /\ frame[Owner].op # "Start"

\* The step is the last one of Finish, line 127.
FinishReturns == pc[Owner] = "F127" /\ pc'[Owner] = "idle"

\* The step is line 242 of the AutoPrint loop.
LoopDecrement == pc[Auto] = "L242" /\ pc'[Auto] = "L244"

\* C9 as stated: between a Start and the next Finish no step of Print,
\* Println, Tick or the AutoPrint loop decreases the completion counter, and
\* Finish sets it to zero.
C9_NeverDecreasesAsStated ==
    [][ /\ Between => progress' >= progress
        /\ FinishReturns => progress' = 0 ]_vars

\* C9 as amended: between a Start and the next Finish no step of Print,
\* Println or Tick, whoever calls it, decreases the completion counter; the
\* only decrease is by one, at line 242 of the AutoPrint loop; line 127 of
\* Finish sets the counter to zero.
C9_NeverDecreases ==
    [][ /\ Between =>
            IF LoopDecrement THEN progress' \in {progress - 1, progress}
                             ELSE progress' >= progress
        /\ FinishReturns => progress' = 0 ]_vars

\* The loop has decremented the counter that a Print of the session raised.
C9_Witness ==
    /\ Between /\ trackProgress
    /\ pc[Auto] = "L244"
    /\ calls.since = 1
    /\ progress = 0

\* ------------------------------------------- the AutoPrint loop, scheduled
\* SpecLoop: the session of SpecAuto under the Go scheduler: a goroutine that
\* can take a step is eventually run, and wall-clock time passes.  The seconds
\* modelled end at MaxClock, so a sleep that would end later never ends here.

SpecLoop ==
    /\ InitAuto
    /\ [][NextAuto]_vars
    /\ WF_vars(Alive /\ LoopStep(Auto))
    /\ WF_vars(Alive /\ PrintStep(Auto))
    /\ WF_vars(Alive /\ (PrintStep(Owner) \/ StartStep(Owner)
                         \/ FinishStep(Owner) \/ T137(Owner)))
    /\ WF_vars(ClockTick)

\* The background loop started by AutoPrint is running.
LoopRunning == frame[Auto].op = "loop" /\ pc[Auto] # "idle"

\* The loop has returned at line 238.
LoopExited == frame[Auto].op = "exited" /\ pc[Auto] = "idle"

\* The loop's current sleep, if any, ends within the seconds modelled.
LoopWakes == frame[Auto].wake <= MaxClock

\* C11: once Finish has set the finished flag (line 67), the background loop
\* started before by AutoPrint eventually exits, whatever calls follow on the
\* Console, a later Start included (a panic ends the program, loop included).
C11_LoopExits ==
    [](done /\ LoopRunning /\ LoopWakes /\ Alive => <>(LoopExited \/ ~Alive))

\* ------------------------------------------------------------ replace mode
\* SpecReplace: NewConsole(true, limit, progress); one goroutine prints and
\* printlns texts of every length from 1 to MaxText, one call after the other.

\* Longest text given to Print and Println in SpecReplace.
MaxText == 4

\* Calls made in SpecReplace.
MaxReplaceCalls == 3

ReplaceTemplates == { [text |-> Str(n), args |-> <<>>] : n \in 1..MaxText }

InitReplace == InitConsole /\ replace

ReplaceReport ==
    /\ calls.seq < MaxReplaceCalls
    /\ \E tmpl \in ReplaceTemplates :
           ConsolePrint(Main, tmpl) \/ ConsolePrintln(Main, tmpl)

NextReplace ==
    \/ ReplaceReport
    \/ PrintStep(Main)
    \/ ClockTick

SpecReplace == InitReplace /\ [][NextReplace]_vars

\* The step is lines 176-211 of a Print of goroutine t.
Formats(t) == pc[t] = "P176" /\ pc'[t] = "P213"

\* Length of the text Print is about to format, arguments substituted,
\* without a trailing newline (the templates have no carriage return).
VisibleLen(t) ==
    LET m == Sprintf(Prefixed(prefix, frame[t].msg), frame[t].args)
    IN  TLen(m) - (IF m.nl THEN 1 ELSE 0)

\* Columns covered by the bytes written: every character but the leading
\* carriage return and the trailing newline.
CoveredLen(out) ==
    TLen(out) - (IF out.cr THEN 1 ELSE 0) - (IF out.nl THEN 1 ELSE 0)

\* C12: with replace=true, whenever Print or Println formats a text whose
\* visible length is shorter than the recorded length of the previous line,
\* the bytes it writes (content and padding) cover at least that length.
C12_ReplaceCovers ==
    [][ Formats(Main) /\ replace /\ VisibleLen(Main) < lastPrintLen
            => CoveredLen(frame'[Main].msg) >= lastPrintLen ]_vars

\* ------------------------------------------------- UnixSocketLogger.Write
\* part_000 lines 318-352.  The peer of a connection may go away at any
\* write: the write fails and so does every later write on that connection.
\* net.Dial succeeds or fails as the path is served or not at that moment.

\* The variables of the Console, which the loggers leave alone.
consoleVars == <<console, lock, clock, sink, pc, frame, calls>>

\* Longest message given to UnixSocketLogger.Write.
MaxMessage == 2

\* Calls of UnixSocketLogger.Write made in SpecSocket.
MaxSocketCalls == 3

\* Lines 345-352: initSocket(); ok says that net.Dial returned no error.
initSocket(u, ok) ==
    IF ok
      THEN [u EXCEPT !.conns = Append(@, "open"),
                     !.socket = Len(u.conns) + 1,
                     !.log = Append(@, [op |-> "dial", ok |-> TRUE,
                                        conn |-> Len(u.conns) + 1])]
      ELSE [u EXCEPT !.log = Append(@, [op |-> "dial", ok |-> FALSE,
                                        conn |-> 0])]

\* u.socket.Write(append(message, "\n")): ok says that it returned no error,
\* k is the count of bytes it returned with an error.
socketWrite(u, ok, k) ==
    IF ok
      THEN [u EXCEPT !.n = u.message + 1, !.err = "nil",
                     !.log = Append(@, [op |-> "write", ok |-> TRUE,
                                        conn |-> u.socket])]
      ELSE [u EXCEPT !.n = k, !.err = "write",
                     !.conns = [@ EXCEPT ![u.socket] = "broken"],
                     !.log = Append(@, [op |-> "write", ok |-> FALSE,
                                        conn |-> u.socket])]

\* A write on the connection of u may succeed.
Connected(u) == u.conns[u.socket] = "open"

\* Line 327: a call of Write(message).
SocketWriteCall(len) ==
    /\ unixSocketLogger.pc = "idle"
    /\ unixSocketLogger.calls < MaxSocketCalls
    /\ unixSocketLogger' = [unixSocketLogger EXCEPT
           !.pc = "U328", !.message = len, !.n = 0, !.err = "nil",
           !.log = <<>>, !.calls = @ + 1]
    /\ UNCHANGED <<consoleVars, multipleWriter>>

\* Lines 328-330: if u.socket == nil { u.initSocket() }.
U328 ==
    /\ unixSocketLogger.pc = "U328"
    /\ IF unixSocketLogger.socket = 0
         THEN \E ok \in BOOLEAN :
                  unixSocketLogger' =
                      [initSocket(unixSocketLogger, ok) EXCEPT !.pc = "U332"]
         ELSE unixSocketLogger' = [unixSocketLogger EXCEPT !.pc = "U332"]
    /\ UNCHANGED <<consoleVars, multipleWriter>>

\* Lines 332-334: if u.socket == nil { return }, with n = 0 and err = nil.
U332 ==
    /\ unixSocketLogger.pc = "U332"
    /\ unixSocketLogger' = [unixSocketLogger EXCEPT
           !.pc = IF unixSocketLogger.socket = 0 THEN "Uret" ELSE "U336"]
    /\ UNCHANGED <<consoleVars, multipleWriter>>

\* Line 336: n, err = u.socket.Write(append(message, "\n")).
U336 ==
    /\ unixSocketLogger.pc = "U336"
    /\ \E ok \in BOOLEAN, k \in 0..unixSocketLogger.message :
           /\ ok => Connected(unixSocketLogger) /\ k = 0
           /\ unixSocketLogger' =
                  [socketWrite(unixSocketLogger, ok, k) EXCEPT !.pc = "U337"]
    /\ UNCHANGED <<consoleVars, multipleWriter>>

\* Line 337: if err != nil.
U337 ==
    /\ unixSocketLogger.pc = "U337"
    /\ unixSocketLogger' = [unixSocketLogger EXCEPT
           !.pc = IF unixSocketLogger.err # "nil" THEN "U338" ELSE "U342"]
    /\ UNCHANGED <<consoleVars, multipleWriter>>

\* Line 338: u.initSocket().
U338 ==
    /\ unixSocketLogger.pc = "U338"
    /\ \E ok \in BOOLEAN :
           unixSocketLogger' =
               [initSocket(unixSocketLogger, ok) EXCEPT !.pc = "U339"]
    /\ UNCHANGED <<consoleVars, multipleWriter>>

\* Line 339: return u.socket.Write(append(message, "\n")).
U339 ==
    /\ unixSocketLogger.pc = "U339"
    /\ \E ok \in BOOLEAN, k \in 0..unixSocketLogger.message :
           /\ ok => Connected(unixSocketLogger) /\ k = 0
           /\ unixSocketLogger' =
                  [socketWrite(unixSocketLogger, ok, k) EXCEPT !.pc = "Uret"]
    /\ UNCHANGED <<consoleVars, multipleWriter>>

\* Line 342: return n, err.
U342 ==
    /\ unixSocketLogger.pc = "U342"
    /\ unixSocketLogger' = [unixSocketLogger EXCEPT !.pc = "Uret"]
    /\ UNCHANGED <<consoleVars, multipleWriter>>

\* Write has returned (n, err) to its caller.
Uret ==
    /\ unixSocketLogger.pc = "Uret"
    /\ unixSocketLogger' = [unixSocketLogger EXCEPT !.pc = "idle"]
    /\ UNCHANGED <<consoleVars, multipleWriter>>

\* NewUnixSockerLogger(path) and a Console nobody uses.
InitLogger ==
    InitConsole /\ ~replace /\ ~limit /\ ~trackProgress

NextSocket ==
    \/ \E len \in 1..MaxMessage : SocketWriteCall(len)
    \/ U328
    \/ U332
    \/ U336
    \/ U337
    \/ U338
    \/ U339
    \/ U342
    \/ Uret

SpecSocket == InitLogger /\ [][NextSocket]_vars

\* What the Write that is returning did: its dials and its writes.
SocketLog(op) ==
    { j \in 1..Len(unixSocketLogger.log) : unixSocketLogger.log[j].op = op }

\* The place in the log of the first write of the call (0: none).
FirstWrite ==
    IF SocketLog("write") = {} THEN 0
    ELSE CHOOSE j \in SocketLog("write") : \A h \in SocketLog("write") : j <= h

\* The first write of the call failed.
FirstWriteFailed ==
    FirstWrite # 0 /\ ~unixSocketLogger.log[FirstWrite].ok

\* After its first write the call dialed once and then wrote once.
RetriedOnce ==
    /\ Len(unixSocketLogger.log) = FirstWrite + 2
    /\ unixSocketLogger.log[FirstWrite + 1].op = "dial"
    /\ unixSocketLogger.log[FirstWrite + 2].op = "write"

\* A dial of the call failed.
DialFailed ==
    \E j \in SocketLog("dial") : ~unixSocketLogger.log[j].ok

\* The message reached a connection.
Delivered ==
    \E j \in SocketLog("write") : unixSocketLogger.log[j].ok

\* C13: when UnixSocketLogger.Write returns: after a write failure it has
\* re-dialed once and has retried the write exactly once; and whenever a
\* dial failed (on first use or on the reconnect after a failed write) the
\* message was dropped and Write returns no error.
C13_SocketWrite ==
    unixSocketLogger.pc = "Uret" =>
        /\ FirstWriteFailed => RetriedOnce
        /\ DialFailed => ~Delivered /\ unixSocketLogger.err = "nil"

\* --------------------------------------------------- MultipleWriter.Write
\* part_000 lines 15-32.  A writer of the list either accepts all the bytes
\* and returns (len(p), nil) or fails and returns the count of bytes it took
\* with its own error.

\* Most writers given to NewMultipleWriter.
MaxWriters == 3

\* Longest p given to MultipleWriter.Write.
MaxBytes == 2

\* Calls of MultipleWriter.Write made in SpecWriters.
MaxWriterCalls == 2

\* A test that finds no error.
FailedNever(e) == FALSE

\* Line 22: e != nil.
Failed(e) == e # 0

\* Lines 30-32: NewMultipleWriter(writers...), before the first Write.
MultipleWriterNew(writers) ==
    /\ multipleWriter = NewMultipleWriter(0)
    /\ writers > 0
    /\ multipleWriter' = NewMultipleWriter(writers)
    /\ UNCHANGED <<consoleVars, unixSocketLogger>>

\* Line 19: a call of Write(p); the named results n and err are 0 and nil.
MultipleWriteCall(len) ==
    /\ multipleWriter.pc = "idle"
    /\ multipleWriter.calls < MaxWriterCalls
    /\ multipleWriter' = [multipleWriter EXCEPT
           !.pc = "M20", !.p = len, !.i = 0, !.n1 = 0, !.e = 0,
           !.n = 0, !.err = 0, !.log = <<>>, !.calls = @ + 1]
    /\ UNCHANGED <<consoleVars, unixSocketLogger>>

\* Line 20: for _, writer := range m.writers.
M20 ==
    /\ multipleWriter.pc = "M20"
    /\ multipleWriter' =
           IF multipleWriter.i < multipleWriter.writers
             THEN [multipleWriter EXCEPT !.i = @ + 1, !.pc = "M21"]
             ELSE [multipleWriter EXCEPT !.pc = "M27"]
    /\ UNCHANGED <<consoleVars, unixSocketLogger>>

\* Line 21: n, e := writer.Write(p), which declares a new n (here n1).
M21 ==
    /\ multipleWriter.pc = "M21"
    /\ \E ok \in BOOLEAN, k \in 0..(multipleWriter.p - 1) :
           /\ ok => k = 0
           /\ LET n1 == IF ok THEN multipleWriter.p ELSE k
                  e  == IF ok THEN 0 ELSE multipleWriter.i
              IN  multipleWriter' = [multipleWriter EXCEPT
                      !.n1 = n1, !.e = e, !.pc = "M22",
                      !.log = Append(@, [writer |-> multipleWriter.i,
                                         n |-> n1, e |-> e])]
    /\ UNCHANGED <<consoleVars, unixSocketLogger>>

\* Lines 22-24: if e != nil { return n, e }, the n of line 21.
M22 ==
    /\ multipleWriter.pc = "M22"
    /\ multipleWriter' =
           IF Failed(multipleWriter.e)
             THEN [multipleWriter EXCEPT !.n = multipleWriter.n1,
                                         !.err = multipleWriter.e,
                                         !.pc = "Mret"]
             ELSE [multipleWriter EXCEPT !.pc = "M20"]
    /\ UNCHANGED <<consoleVars, unixSocketLogger>>

\* Line 27: return n, nil, the n of line 19.
M27 ==
    /\ multipleWriter.pc = "M27"
    /\ multipleWriter' = [multipleWriter EXCEPT !.err = 0, !.pc = "Mret"]
    /\ UNCHANGED <<consoleVars, unixSocketLogger>>

\* Write has returned (n, err) to its caller.
Mret ==
    /\ multipleWriter.pc = "Mret"
    /\ multipleWriter' = [multipleWriter EXCEPT !.pc = "idle"]
    /\ UNCHANGED <<consoleVars, unixSocketLogger>>

NextWriters ==
    \/ \E writers \in 1..MaxWriters : MultipleWriterNew(writers)
    \/ \E len \in 1..MaxBytes : MultipleWriteCall(len)
    \/ M20
    \/ M21
    \/ M22
    \/ M27
    \/ Mret

SpecWriters == InitLogger /\ [][NextWriters]_vars

\* The writers the returning Write called, in the order of the calls.
WritersCalled ==
    [j \in 1..Len(multipleWriter.log) |-> multipleWriter.log[j].writer]

\* The writers 1..k of the list, in list order.
FirstWriters(k) == [j \in 1..k |-> j]

\* A writer called by the returning Write failed.
SomeWriterFailed ==
    \E j \in 1..Len(multipleWriter.log) : multipleWriter.log[j].e # 0

\* C14: when MultipleWriter.Write returns, it has passed the bytes to the
\* writers in list order, each at most once; if a writer failed, it is the
\* last one called and Write returns its error; if none failed, every writer
\* was called exactly once and Write returns the nil error.
C14_WritersInOrder ==
    multipleWriter.pc = "Mret" =>
        /\ WritersCalled = FirstWriters(Len(multipleWriter.log))
        /\ \A j \in 1..Len(multipleWriter.log) :
               multipleWriter.log[j].e # 0 =>
                   /\ j = Len(multipleWriter.log)
                   /\ multipleWriter.err = multipleWriter.log[j].e
        /\ ~SomeWriterFailed =>
               /\ Len(multipleWriter.log) = multipleWriter.writers
               /\ multipleWriter.err = 0

\* A Write to three writers stopped at the second, which failed.
C14_Witness ==
    /\ multipleWriter.pc = "Mret"
    /\ multipleWriter.writers = 3
    /\ Len(multipleWriter.log) = 2
    /\ multipleWriter.err = 2

\* C20: when every writer succeeded, MultipleWriter.Write returns the byte
\* count its writers reported, len(p), with the nil error; when a writer
\* failed, it returns that writer's byte count with its error.
C20_ByteCount ==
    multipleWriter.pc = "Mret" /\ multipleWriter.log # <<>> =>
        LET last == multipleWriter.log[Len(multipleWriter.log)]
        IN  /\ multipleWriter.n = last.n
            /\ multipleWriter.err = last.e
            /\ ~SomeWriterFailed => multipleWriter.n = multipleWriter.p

\* ------------------------------------------- more about concurrent callers

\* The lines of Print after line 154: provider, formatting, write, snapshot.
AfterUpdate == {"P157", "P161", "P170", "P173", "P173b", "P176", "P213", "P215"}

\* C15 (SpecCallers): in Print with limit=true the mutex is held only for the
\* rate-limit check-and-update: an accepted caller does not hold it while it
\* invokes the message provider, formats the line or writes to the sink.
C15_MutexOnlyForUpdate ==
    \A t \in Workers : pc[t] \in AfterUpdate => lock # t

\* The AutoPrint loop is between two iterations or has exited.
LoopAtRest == pc[Auto] \in {"idle", "L237", "L240"}

\* C16 (SpecAuto): with trackProgress=true and an AutoPrint loop, between a
\* Start and the next Finish: the count a caller's Print displays equals the
\* number of caller Print calls made since Start, and once the caller's
\* calls have returned a whole loop iteration leaves the counter at that
\* number.
C16_LoopKeepsCount ==
    Between /\ trackProgress =>
        /\ pc[Owner] = "P213" /\ frame[Owner].running
               => frame[Owner].count = calls.since
        /\ pc[Owner] = "idle" /\ LoopAtRest => progress = calls.since

\* ------------------------------------------------------- a discarded Print

\* The lines of Print.
PrintLines ==
    {"P141", "P145", "P147", "P148", "P152", "P154", "Pret"} \cup AfterUpdate

\* Main has returned from a Print or Println that wrote nothing; every Print
\* that passes line 151 writes at line 213.
Discarded ==
    /\ pc[Main] = "idle"
    /\ frame[Main].op \in {"Print", "Println"}
    /\ frame[Main].wrote = 0

\* C17 (Spec): a Print discarded by rate limiting writes nothing, does not
\* invoke the message provider, holds no mutex after it returns and leaves
\* lastPrint, lastPrintLen and lastProgress (and every other field) as they
\* were; its only effects are the increment of the counter and the setting
\* of a zero start time, both at lines 141-146 when trackProgress is set.
C17_DiscardedPrint ==
    /\ [](Discarded =>
            /\ frame[Main].pre.limit
            /\ Len(sink) = frame[Main].pre.sinkLen
            /\ ~frame[Main].invoked
            /\ lock = NoThread
            /\ lastPrint = frame[Main].pre.lastPrint
            /\ lastPrintLen = frame[Main].pre.lastPrintLen
            /\ lastProgress = frame[Main].pre.lastProgress
            /\ limit = frame[Main].pre.limit
            /\ trackProgress = frame[Main].pre.trackProgress
            /\ printFunc = frame[Main].pre.printFunc
            /\ progress = frame[Main].pre.progress
                              + (IF trackProgress THEN 1 ELSE 0))
    /\ [][pc[Main] \in PrintLines =>
              /\ UNCHANGED <<replace, prefix, firstTick, done>>
              /\ start' # start =>
                     pc[Main] = "P141" /\ trackProgress /\ start = 0]_vars

\* A Print was discarded on a Console that tracks progress and has a message
\* provider; it raised the counter.
C17_Witness ==
    /\ Discarded
    /\ trackProgress /\ printFunc
    /\ progress = 2 /\ lastProgress = 1
    /\ Len(sink) = 2

\* C18 (SpecAuto): Finish(true) never divides by a zero completion count:
\* the value it loads as divisor at line 84 is not zero, so no goroutine
\* panics, whatever the AutoPrint loop does between lines 78 and 84.
C18_NoDivisionByZero ==
    \A t \in Threads : pc[t] # "panic"

\* ------------------------------------------------------ a Console reused
\* SpecReuse: NewConsole(false, limit, true); one goroutine starts the
\* Console, prints, finishes and uses it again, in sessions or outside them.

\* Calls made in SpecReuse.
MaxReuseCalls == 6

InitReuse == InitConsole /\ trackProgress /\ ~replace

ReuseOpen ==
    /\ calls.seq < MaxReuseCalls
    /\ calls.phase # "open"
    /\ \E pfx \in Prefixes : ConsoleStart(Main, pfx)

ReuseReport ==
    /\ calls.seq < MaxReuseCalls
    /\ \E tmpl \in CallerTemplates : ConsolePrint(Main, tmpl)

ReuseClose ==
    /\ calls.seq < MaxReuseCalls
    /\ calls.phase = "open"
    /\ \E ps \in BOOLEAN, extra \in {"none", "str"} :
           ConsoleFinish(Main, ps, extra)

NextReuse ==
    \/ ReuseOpen
    \/ ReuseReport
    \/ ReuseClose
    \/ PrintStep(Main)
    \/ StartStep(Main)
    \/ FinishStep(Main)
    \/ ClockTick

SpecReuse == InitReuse /\ [][NextReuse]_vars

\* C19: the per-interval delta a Print displays (line 173: the completion
\* counter minus the previous-count snapshot) is never negative, the first
\* Print after a Finish and/or a new Start included.
C19_DeltaNotNegative ==
    \A t \in Threads :
        pc[t] = "P176" /\ frame[t].running => frame[t].delta >= 0

====
